---- MODULE Spec2Model ----
(***************************************************************************)
(* Model of the document chunking and retrieval-fusion core of             *)
(* flare-ai-rag:                                                           *)
(*   - SemanticChunker (data_expansion/processors/chunker.py)              *)
(*   - CombinedRetriever (data_expansion/integration.py)                   *)
(*   - GeminiEmbedding.embed_content (ai/gemini.py)                        *)
(*   - chunk_text (utils/text_utils.py)                                    *)
(*   - QdrantCollection (retriever/qdrant_collection.py)                   *)
(*   - DataExpansionService.expand_dataset (data_expansion/service.py)     *)
(*   - GeminiResponder.generate_response (responder/responder.py)          *)
(*   - ChatRouter (api/routes/chat.py) and GeminiProvider (ai/gemini.py)   *)
(*                                                                         *)
(* A text is a sequence of one-character strings; the character "E9"       *)
(* stands for U+00E9, a letter whose UTF-8 encoding takes two bytes.       *)
(***************************************************************************)
EXTENDS Integers, Sequences, FiniteSets, TLC

VARIABLES
    document,         \* chunker: the Document given to chunk_document (id, content)
    config,           \* chunker: the ProcessorConfig of the SemanticChunker
    document_chunks,  \* chunker: the list chunk_document returned
    cpc,              \* chunker: "ready" before the call, "done" after it
    max_results,      \* CombinedRetriever.max_results
    ratio,            \* CombinedRetriever.ratio, in tenths (after the clamp of __init__)
    has_search,       \* whether expansion_service has an attribute `search`
    top_k,            \* argument of the last semantic_search call (0: none yet)
    original_k,       \* local of the last call
    expanded_k,       \* local of the last call
    original_calls,   \* limits the original retriever was queried with in the last call
    expanded_calls,   \* limits expansion_service.search was called with in the last call
    original_failed,  \* the original retriever raised in the last call
    expanded_failed,  \* the expanded lookup raised in the last call
    combined_results, \* the list the last semantic_search call returned
    extended_hits,    \* what a lookup of the extended dataset gives for the last query
    search_raised,    \* the last semantic_search call ended by an exception
    spc,              \* where a semantic_search call followed step by step stands
    responsive,       \* the sources that answer the calls made to them
    original_results, \* local of a call followed step by step
    embed_args,       \* embed_content: the arguments of the call
    epc,              \* embed_content: "ready", "loop", "returned" or "raised"
    attempt,          \* embed_content: local
    delay,            \* embed_content: local, in tenths of a second
    trace,            \* embed_content: the provider calls and the sleeps, in order
    embed_result,     \* embed_content: the vector returned or the exception raised
    tx_text,          \* chunk_text / process_document: the text given
    tx_limit,         \* chunk_text: max_chunk_size; process_document: MAX_CHUNK_SIZE
    tx_chunks,        \* the list chunk_text returned
    tx_records,       \* the list process_document returned
    tpc,              \* "ready", then "chunked" or "processed"
    ing_df,           \* generate_collection: the rows of the DataFrame
    ing_batch_size,   \* generate_collection: batch_size
    ing_collection,   \* the Qdrant collection: whether it exists, and its points
    ing_row,          \* generate_collection: number of rows handled so far
    ing_batch_points, \* generate_collection: local batch_points
    ing_embedded,     \* the chunks embed_content was called for, in order
    ing_upserts,      \* the batches client.upsert was called with, in order
    ing_raised,       \* generate_collection ended by an exception
    ipc,              \* generate_collection: "ready", "rows" or "done"
    exp_config,       \* expand_dataset: enabled and processor.max_documents_per_run
    exp_sources,      \* expand_dataset: config.sources and what scraping them gives
    exp_next,         \* expand_dataset: number of sources handled so far
    exp_processed,    \* the documents saved, chunked and stored in this run
    exp_results,      \* expand_dataset: the dictionary results
    xpc,              \* expand_dataset: "ready", "sources" or "done"
    rsp_context,      \* generate_response: the context documents given
    rsp_prompts,      \* the prompts generate_response sent to the LLM, in order
    rsp_answer,       \* what generate_response returned or raised
    rpc,              \* generate_response: "ready" or "done"
    att_requested,    \* ChatRouter: attestation.attestation_requested
    chat,             \* GeminiProvider.chat: "None" or "session"
    chat_history,     \* GeminiProvider.chat_history
    initialization_error, \* GeminiProvider.initialization_error: "None" or the text
    chat_log,         \* the provider operations and chat requests handled, in order
    kpc               \* "on" while the chat application runs

chunkVars == <<document, config, document_chunks, cpc>>
fusionVars == <<max_results, ratio, has_search, top_k, original_k, expanded_k,
                original_calls, expanded_calls, original_failed, expanded_failed,
                combined_results, extended_hits, search_raised, spc, responsive,
                original_results>>
embedVars == <<embed_args, epc, attempt, delay, trace, embed_result>>
textVars == <<tx_text, tx_limit, tx_chunks, tx_records, tpc>>
ingestVars == <<ing_df, ing_batch_size, ing_collection, ing_row, ing_batch_points,
                ing_embedded, ing_upserts, ing_raised, ipc>>
expandVars == <<exp_config, exp_sources, exp_next, exp_processed, exp_results, xpc>>
respVars == <<rsp_context, rsp_prompts, rsp_answer, rpc>>
chatVars == <<att_requested, chat, chat_history, initialization_error, chat_log, kpc>>
laterVars == <<textVars, ingestVars, expandVars, respVars, chatVars>>
vars == <<chunkVars, fusionVars, embedVars, laterVars>>

----------------------------------------------------------------------------
(* Bounds of the model *)

MaxTokens == 4
MaxChunkSize == 4
MaxTopK == 3
MaxCap == 3
MaxScore == 2
MaxRetries == 3
MaxRows == 2
MaxRowChunks == 2
MaxSources == 2
MaxSourceDocs == 2
MaxDocsPerRun == 2
MaxContext == 3
MaxRequests == 3

----------------------------------------------------------------------------
(* Python string primitives *)

Min(S) == CHOOSE x \in S : \A y \in S : x <= y
Max(S) == CHOOSE x \in S : \A y \in S : x >= y

\* str.isspace for one character (the whitespace class of str.strip, str.split and \s)
IsSpace(c) == c \in {" ", "\n", "\t", "\r"}

\* Python's text[a:b] with 1-based inclusive bounds; empty when b < a
Slice(text, a, b) == IF b < a THEN <<>> ELSE SubSeq(text, a, b)

\* str.strip()
Strip(text) ==
    LET nonws == {i \in 1..Len(text) : ~IsSpace(text[i])}
    IN  IF nonws = {} THEN <<>> ELSE SubSeq(text, Min(nonws), Max(nonws))

\* str.split(): the maximal runs of non-whitespace characters
RECURSIVE SplitFrom(_, _, _, _)
SplitFrom(text, i, cur, acc) ==
    IF i > Len(text)
    THEN IF cur = <<>> THEN acc ELSE Append(acc, cur)
    ELSE IF IsSpace(text[i])
         THEN SplitFrom(text, i + 1, <<>>, IF cur = <<>> THEN acc ELSE Append(acc, cur))
         ELSE SplitFrom(text, i + 1, Append(cur, text[i]), acc)

Split(text) == SplitFrom(text, 1, <<>>, <<>>)

\* sep.join(parts)
RECURSIVE Join(_, _)
Join(parts, sep) ==
    IF parts = <<>> THEN <<>>
    ELSE IF Len(parts) = 1 THEN parts[1]
    ELSE parts[1] \o sep \o Join(Tail(parts), sep)

\* number of UTF-8 bytes of one character
ByteLen(c) == IF c = "E9" THEN 2 ELSE 1

\* len(text.encode('utf-8'))
RECURSIVE calculate_text_size(_)
calculate_text_size(text) ==
    IF text = <<>> THEN 0 ELSE ByteLen(Head(text)) + calculate_text_size(Tail(text))

\* index of the last character of the whitespace run that starts at i (i - 1 if none)
WsRunEnd(text, i) ==
    LET nonws == {k \in i..Len(text) : ~IsSpace(text[k])}
    IN  IF nonws = {} THEN Len(text) ELSE Min(nonws) - 1

----------------------------------------------------------------------------
(* The regular expressions of chunker.py *)

\* r"\n\s*\n" tried at index i: index of the last character matched, 0 if no match
ParagraphMatchEnd(text, i) ==
    IF text[i] # "\n" THEN 0
    ELSE LET ends == {j \in (i + 1)..WsRunEnd(text, i) : text[j] = "\n"}
         IN  IF ends = {} THEN 0 ELSE Max(ends)

\* re.split(r"\n\s*\n", text)
RECURSIVE ParagraphScan(_, _, _, _)
ParagraphScan(text, i, from, acc) ==
    IF i > Len(text) THEN Append(acc, Slice(text, from, Len(text)))
    ELSE LET e == ParagraphMatchEnd(text, i)
         IN  IF e = 0 THEN ParagraphScan(text, i + 1, from, acc)
             ELSE ParagraphScan(text, e + 1, e + 1, Append(acc, Slice(text, from, i - 1)))

SplitParagraphs(text) == ParagraphScan(text, 1, 1, <<>>)

\* r"(?<=[.!?])\s+" tried at index i: index of the last character matched, 0 if no match
SentenceMatchEnd(text, i) ==
    IF i > 1 /\ text[i - 1] \in {".", "!", "?"} /\ IsSpace(text[i])
    THEN WsRunEnd(text, i) ELSE 0

\* re.split(r"(?<=[.!?])\s+", text)
RECURSIVE SentenceScan(_, _, _, _)
SentenceScan(text, i, from, acc) ==
    IF i > Len(text) THEN Append(acc, Slice(text, from, Len(text)))
    ELSE LET e == SentenceMatchEnd(text, i)
         IN  IF e = 0 THEN SentenceScan(text, i + 1, from, acc)
             ELSE SentenceScan(text, e + 1, e + 1, Append(acc, Slice(text, from, i - 1)))

SplitSentences(text) == SentenceScan(text, 1, 1, <<>>)

\* (?:#{1,6}|\*{1,3}|\={3,}|\-{3,}) at index h: index of its last character, 0 if no match
MarkerEnd(text, h) ==
    IF h > Len(text) \/ text[h] \notin {"#", "*", "=", "-"} THEN 0
    ELSE LET c == text[h]
             other == {k \in h..Len(text) : text[k] # c}
             last == IF other = {} THEN Len(text) ELSE Min(other) - 1
             n == last - h + 1
         IN  IF \/ c = "#" /\ n <= 6
                \/ c = "*" /\ n <= 3
                \/ c \in {"=", "-"} /\ n >= 3
             THEN last ELSE 0

\* \s+(.+?)(?:\n|$) after a marker ending at me: index of the last character
\* matched, 0 if no match. \s+ is greedy and gives characters back until the
\* group can start on a character other than a newline; the lazy group then
\* runs to the first newline (consumed) or to the end of the text.
HeadingTailEnd(text, me) ==
    IF me + 1 > Len(text) \/ ~IsSpace(text[me + 1]) THEN 0
    ELSE LET w == WsRunEnd(text, me + 1) + 1
             starts == {g \in (me + 2)..Min({w, Len(text)}) : text[g] # "\n"}
         IN  IF starts = {} THEN 0
             ELSE LET g == Max(starts)
                      nls == {q \in (g + 1)..Len(text) : text[q] = "\n"}
                  IN  IF nls = {} THEN Len(text) ELSE Min(nls)

\* heading_pattern tried at index p: index of the last character matched, 0 if no match
HeadingMatchEnd(text, p) ==
    LET atStart == IF p = 1 THEN MarkerEnd(text, 1) ELSE 0
        afterNl == IF text[p] = "\n" THEN MarkerEnd(text, p + 1) ELSE 0
        viaStart == IF atStart = 0 THEN 0 ELSE HeadingTailEnd(text, atStart)
    IN  IF viaStart # 0 THEN viaStart
        ELSE IF afterNl = 0 THEN 0 ELSE HeadingTailEnd(text, afterNl)

\* [m.start() + 1 for m in re.finditer(heading_pattern, text)]
RECURSIVE HeadingScan(_, _, _)
HeadingScan(text, p, acc) ==
    IF p > Len(text) THEN acc
    ELSE LET e == HeadingMatchEnd(text, p)
         IN  IF e = 0 THEN HeadingScan(text, p + 1, acc)
             ELSE HeadingScan(text, e + 1, Append(acc, p))

Headings(text) == HeadingScan(text, 1, <<>>)

----------------------------------------------------------------------------
(* SemanticChunker *)

\* words[-n:]
LastWords(words, n) == SubSeq(words, Len(words) - n + 1, Len(words))

\* _split_with_overlap, lines 257-269: the chunk started after current_chunk is full
StartChunk(current_chunk, sentence, overlap) ==
    IF overlap > 0 /\ current_chunk # <<>>
    THEN LET words == Split(current_chunk)
             overlap_words == Min({Len(words), overlap \div 5})
         IN  IF overlap_words > 0
             THEN Join(LastWords(words, overlap_words), <<" ">>) \o <<" ">> \o sentence
             ELSE sentence
    ELSE sentence

\* _split_with_overlap, lines 250-279: the loop over the sentences
RECURSIVE SentenceLoop(_, _, _, _, _)
SentenceLoop(sentences, chunks, current_chunk, chunk_size, overlap) ==
    IF sentences = <<>>
    THEN IF current_chunk # <<>> THEN Append(chunks, current_chunk) ELSE chunks
    ELSE LET sentence == Head(sentences)
         IN  IF Len(current_chunk) + Len(sentence) > chunk_size
             THEN SentenceLoop(Tail(sentences),
                               IF current_chunk # <<>> THEN Append(chunks, current_chunk)
                                                       ELSE chunks,
                               StartChunk(current_chunk, sentence, overlap),
                               chunk_size, overlap)
             ELSE SentenceLoop(Tail(sentences), chunks,
                               IF current_chunk # <<>>
                               THEN current_chunk \o <<" ">> \o sentence
                               ELSE sentence,
                               chunk_size, overlap)

\* split_with_overlap without the early return of lines 240-241
split_with_overlap_always(text, chunk_size, overlap) ==
    SentenceLoop(SplitSentences(text), <<>>, <<>>, chunk_size, overlap)

split_with_overlap(text, chunk_size, overlap) ==
    IF Len(text) <= chunk_size THEN <<text>>
    ELSE SentenceLoop(SplitSentences(text), <<>>, <<>>, chunk_size, overlap)

\* _split_long_section, lines 193-218: the loop over the paragraphs
RECURSIVE SubsectionLoop(_, _, _, _)
SubsectionLoop(paragraphs, subsections, current_subsection, cfg) ==
    IF paragraphs = <<>>
    THEN IF current_subsection # <<>> THEN Append(subsections, current_subsection)
                                      ELSE subsections
    ELSE LET paragraph == Head(paragraphs)
             flushed == IF current_subsection # <<>>
                        THEN Append(subsections, current_subsection) ELSE subsections
         IN  IF Len(current_subsection) + Len(paragraph) > cfg.chunk_size
             THEN IF Len(paragraph) > cfg.chunk_size
                  THEN SubsectionLoop(Tail(paragraphs),
                           flushed \o split_with_overlap(paragraph, cfg.chunk_size,
                                                         cfg.chunk_overlap),
                           <<>>, cfg)
                  ELSE SubsectionLoop(Tail(paragraphs), flushed, paragraph, cfg)
             ELSE SubsectionLoop(Tail(paragraphs), subsections,
                                 IF current_subsection # <<>>
                                 THEN current_subsection \o <<"\n", "\n">> \o paragraph
                                 ELSE paragraph,
                                 cfg)

split_long_section(section, cfg) ==
    LET paragraphs == SplitParagraphs(section)
    IN  IF Len(paragraphs) > 1
        THEN SubsectionLoop(paragraphs, <<>>, <<>>, cfg)
        ELSE split_with_overlap(section, cfg.chunk_size, cfg.chunk_overlap)

\* _extract_sections, lines 123-139: paragraphs packed into sections
RECURSIVE ParagraphLoop(_, _, _, _)
ParagraphLoop(paragraphs, sections, current_section, cfg) ==
    IF paragraphs = <<>>
    THEN IF current_section # <<>> THEN Append(sections, current_section) ELSE sections
    ELSE LET paragraph == Head(paragraphs)
         IN  IF Len(current_section) + Len(paragraph) > cfg.chunk_size
             THEN ParagraphLoop(Tail(paragraphs),
                                IF current_section # <<>>
                                THEN Append(sections, current_section) ELSE sections,
                                paragraph, cfg)
             ELSE ParagraphLoop(Tail(paragraphs), sections,
                                IF current_section # <<>>
                                THEN current_section \o <<"\n", "\n">> \o paragraph
                                ELSE paragraph,
                                cfg)

\* _extract_sections, lines 142-156: one stripped section per heading, empty ones left out
RECURSIVE HeadingSections(_, _, _)
HeadingSections(text, headings, i) ==
    IF i > Len(headings) THEN <<>>
    ELSE LET end == IF i < Len(headings) THEN headings[i + 1] - 1 ELSE Len(text)
             section == Strip(Slice(text, headings[i], end))
         IN  (IF section # <<>> THEN <<section>> ELSE <<>>)
             \o HeadingSections(text, headings, i + 1)

\* LeadingSection with the test of line 159 off by one
LeadingSectionOffByOne(text, headings) ==
    IF headings[1] > 2
    THEN LET first_section == Strip(Slice(text, 1, headings[1] - 1))
         IN  IF first_section # <<>> THEN <<first_section>> ELSE <<>>
    ELSE <<>>

\* _extract_sections, lines 158-162: the content before the first heading
LeadingSection(text, headings) ==
    IF headings[1] > 1
    THEN LET first_section == Strip(Slice(text, 1, headings[1] - 1))
         IN  IF first_section # <<>> THEN <<first_section>> ELSE <<>>
    ELSE <<>>

\* _extract_sections, lines 164-173: sections that are too long are split
RECURSIVE SplitLongSections(_, _)
SplitLongSections(sections, cfg) ==
    IF sections = <<>> THEN <<>>
    ELSE (IF Len(Head(sections)) > cfg.chunk_size
          THEN split_long_section(Head(sections), cfg)
          ELSE <<Head(sections)>>)
         \o SplitLongSections(Tail(sections), cfg)

extract_sections(text, cfg) ==
    IF ~cfg.preserve_sections
    THEN split_with_overlap(text, cfg.chunk_size, cfg.chunk_overlap)
    ELSE LET headings == Headings(text)
             sections ==
                 IF headings = <<>>
                 THEN ParagraphLoop(SplitParagraphs(text), <<>>, <<>>, cfg)
                 ELSE LeadingSection(text, headings) \o HeadingSections(text, headings, 1)
         IN  SplitLongSections(sections, cfg)

\* str(n) for n >= 0
RECURSIVE Decimal(_)
Decimal(n) ==
    LET digit == <<"0", "1", "2", "3", "4", "5", "6", "7", "8", "9">>[(n % 10) + 1]
    IN  IF n < 10 THEN <<digit>> ELSE Append(Decimal(n \div 10), digit)

\* f"{document.id}_{chunk_index}"
ChunkId(document_id, chunk_index) == document_id \o <<"_">> \o Decimal(chunk_index)

\* chunk_document, lines 63-70 and 76-83: a DocumentChunk (metadata left out)
NewChunk(doc, content, chunk_index) ==
    [id |-> ChunkId(doc.id, chunk_index),
     document_id |-> doc.id,
     content |-> content,
     chunk_index |-> chunk_index,
     total_chunks |-> 0]

\* SkipSection testing the section without strip()
SkipSectionUnstripped(section) == section = <<>>

\* chunk_document, line 52: the section is skipped
SkipSection(section) == Strip(section) = <<>>

\* SubsectionChunks without the increment of line 73
RECURSIVE SubsectionChunksNoIncrement(_, _, _)
SubsectionChunksNoIncrement(doc, subsections, chunk_index) ==
    IF subsections = <<>> THEN <<>>
    ELSE <<NewChunk(doc, Head(subsections), chunk_index)>>
         \o SubsectionChunksNoIncrement(doc, Tail(subsections), chunk_index)

\* chunk_document, lines 61-73: one chunk per subsection
RECURSIVE SubsectionChunks(_, _, _)
SubsectionChunks(doc, subsections, chunk_index) ==
    IF subsections = <<>> THEN <<>>
    ELSE <<NewChunk(doc, Head(subsections), chunk_index)>>
         \o SubsectionChunks(doc, Tail(subsections), chunk_index + 1)

\* chunk_document, lines 50-86: the loop over the sections
RECURSIVE SectionLoop(_, _, _, _, _)
SectionLoop(doc, sections, chunks, chunk_index, cfg) ==
    IF sections = <<>> THEN chunks
    ELSE LET section == Head(sections)
         IN  IF SkipSection(section)
             THEN SectionLoop(doc, Tail(sections), chunks, chunk_index, cfg)
             ELSE IF Len(section) > cfg.chunk_size
             THEN LET subsections == split_long_section(section, cfg)
                  IN  SectionLoop(doc, Tail(sections),
                                  chunks \o SubsectionChunks(doc, subsections, chunk_index),
                                  chunk_index + Len(subsections), cfg)
             ELSE SectionLoop(doc, Tail(sections),
                              Append(chunks, NewChunk(doc, section, chunk_index)),
                              chunk_index + 1, cfg)

\* chunk_document, lines 88-91: total_chunks is set on every chunk
SetTotalChunks(chunks) ==
    [i \in 1..Len(chunks) |-> [chunks[i] EXCEPT !.total_chunks = Len(chunks)]]

chunk_document(doc, cfg) ==
    SetTotalChunks(SectionLoop(doc, extract_sections(doc.content, cfg), <<>>, 0, cfg))

----------------------------------------------------------------------------
(* CombinedRetriever *)

\* dict.get(key, default)
Get(result, key, default) == IF key \in DOMAIN result THEN result[key] ELSE default

\* __init__, line 44: max(0.0, min(1.0, ratio)), in tenths
ClampRatio(r) == Max({0, Min({10, r})})

\* semantic_search, line 62: max(1, int(top_k * self.ratio)), the ratio in tenths
ExpandedK(k, r) == Max({1, (k * r) \div 10})

\* semantic_search, line 63: max(1, top_k - expanded_k)
OriginalK(k, ek) == Max({1, k - ek})

\* semantic_search, lines 85-88: an original result with its source marker
TagOriginal(result) ==
    [key \in DOMAIN result \cup {"source"} |->
        IF key = "source" THEN "original" ELSE result[key]]

\* semantic_search, lines 93-100: an expanded result in the format of the original ones
FormatExpanded(result) ==
    [text |-> Get(result, "text", ""),
     score |-> Get(result, "score", 0),
     source |-> "expanded",
     url |-> Get(result, "url", ""),
     title |-> Get(result, "title", ""),
     file_name |-> Get(result, "file_name", "")]

\* semantic_search, lines 82-101: the original results, then the expanded ones
Combine(orig, exp) ==
    [i \in 1..Len(orig) |-> TagOriginal(orig[i])]
        \o [i \in 1..Len(exp) |-> FormatExpanded(exp[i])]

\* the sort key of line 104
SortKey(x) == Get(x, "score", 0)

\* InsertByScore putting r before the results of equal key: an unstable sort
RECURSIVE InsertBeforeEqual(_, _)
InsertBeforeEqual(sorted, r) ==
    IF sorted = <<>> THEN <<r>>
    ELSE IF SortKey(Head(sorted)) > SortKey(r)
         THEN <<Head(sorted)>> \o InsertBeforeEqual(Tail(sorted), r)
         ELSE <<r>> \o sorted

\* r put behind every result whose key is not smaller: equal keys keep their order
RECURSIVE InsertByScore(_, _)
InsertByScore(sorted, r) ==
    IF sorted = <<>> THEN <<r>>
    ELSE IF SortKey(Head(sorted)) >= SortKey(r)
         THEN <<Head(sorted)>> \o InsertByScore(Tail(sorted), r)
         ELSE <<r>> \o sorted

\* semantic_search, line 104: list.sort(key=..., reverse=True), a stable sort
RECURSIVE SortByScore(_)
SortByScore(results) ==
    IF results = <<>> THEN <<>>
    ELSE InsertByScore(SortByScore(SubSeq(results, 1, Len(results) - 1)),
                       results[Len(results)])

\* semantic_search, line 107: combined_results[:self.max_results]
Limit(results, cap) == SubSeq(results, 1, Min({Len(results), cap}))

\* semantic_search, lines 66-71: what the original retriever returned, nothing
\* when it raised
OriginalResults(o) == IF o.raises THEN <<>> ELSE o.results

\* semantic_search, lines 74-79: what expansion_service.search returned, nothing
\* when the service has no such method or when it raised
ExpandedResults(has, e) == IF ~has \/ e.raises THEN <<>> ELSE e.results

\* a call that lets the exception out when both lookups raise
PropagatesWhenBothRaise(o, has, e) == o.raises /\ (~has \/ e.raises)

\* semantic_search, lines 69 and 77: `except Exception` takes what a lookup
\* raises, so that nothing raised by a lookup leaves the call
Propagates(o, has, e) == FALSE

\* semantic_search, lines 81-107: merge, sort and cut
Fused(orig, exp, cap) == Limit(SortByScore(Combine(orig, exp)), cap)

----------------------------------------------------------------------------
(* Inputs of the combined retriever *)

\* the scores of the hits a source returns for a limit of n: best hit first
ScoreLists(n) ==
    {s \in UNION {[1..m -> 1..MaxScore] : m \in 0..n} :
        \A i \in 1..(Len(s) - 1) : s[i] >= s[i + 1]}

\* what QdrantRetriever.semantic_search(query, top_k=n) does: it raises, or
\* returns at most n results, each with a text, a score and the other keys of
\* the payload of its point
OriginalOutcomes(n) ==
    {[raises |-> TRUE, results |-> <<>>]} \cup
    {[raises |-> FALSE,
      results |-> [i \in 1..Len(s) |->
                      [text |-> <<"o", i>>, score |-> s[i],
                       filename |-> "f", metadata |-> "m"]]] :
        s \in ScoreLists(n)}

\* what a lookup of the extended dataset with a limit of n does: it raises, or
\* returns at most n results
ExpandedOutcomes(n) ==
    {[raises |-> TRUE, results |-> <<>>]} \cup
    {[raises |-> FALSE,
      results |-> [i \in 1..Len(s) |-> [text |-> <<"e", i>>, score |-> s[i]]]] :
        s \in ScoreLists(n)}

Sources == {"original", "expanded"}

----------------------------------------------------------------------------
(* The components that a specification leaves aside *)

ChunkerIdle ==
    /\ document = [id |-> <<"d">>, content |-> <<>>]
    /\ config = [chunk_size |-> 1, chunk_overlap |-> 0, preserve_sections |-> TRUE]
    /\ document_chunks = <<>>
    /\ cpc = "off"

FusionIdle ==
    /\ max_results = 0
    /\ ratio = 0
    /\ has_search = FALSE
    /\ top_k = 0
    /\ original_k = 0
    /\ expanded_k = 0
    /\ original_calls = <<>>
    /\ expanded_calls = <<>>
    /\ original_failed = FALSE
    /\ expanded_failed = FALSE
    /\ combined_results = <<>>
    /\ extended_hits = <<>>
    /\ search_raised = FALSE
    /\ spc = "off"
    /\ responsive = {}
    /\ original_results = <<>>

NoResult == [kind |-> "none"]

EmbedIdle ==
    /\ embed_args = [contents |-> 0, content |-> -1, title |-> -1,
                     starts_with_title |-> FALSE, max_retries |-> 0,
                     initial_delay |-> 0]
    /\ epc = "off"
    /\ attempt = 0
    /\ delay = 0
    /\ trace = <<>>
    /\ embed_result = NoResult

TextIdle ==
    /\ tx_text = <<>>
    /\ tx_limit = 0
    /\ tx_chunks = <<>>
    /\ tx_records = <<>>
    /\ tpc = "off"

IngestIdle ==
    /\ ing_df = <<>>
    /\ ing_batch_size = 0
    /\ ing_collection = [exists |-> FALSE, points |-> <<>>]
    /\ ing_row = 0
    /\ ing_batch_points = <<>>
    /\ ing_embedded = <<>>
    /\ ing_upserts = <<>>
    /\ ing_raised = FALSE
    /\ ipc = "off"

NoResults ==
    [sources_processed |-> 0, documents_collected |-> 0, chunks_stored |-> 0,
     errors |-> <<>>]

ExpandIdle ==
    /\ exp_config = [enabled |-> FALSE, max_documents_per_run |-> 0]
    /\ exp_sources = <<>>
    /\ exp_next = 0
    /\ exp_processed = 0
    /\ exp_results = NoResults
    /\ xpc = "off"

ResponderIdle ==
    /\ rsp_context = <<>>
    /\ rsp_prompts = <<>>
    /\ rsp_answer = [kind |-> "none"]
    /\ rpc = "off"

ChatIdle ==
    /\ att_requested = FALSE
    /\ chat = "None"
    /\ chat_history = <<>>
    /\ initialization_error = "None"
    /\ chat_log = <<>>
    /\ kpc = "off"

LaterIdle == TextIdle /\ IngestIdle /\ ExpandIdle /\ ResponderIdle /\ ChatIdle

EarlierIdle == ChunkerIdle /\ FusionIdle /\ EmbedIdle

----------------------------------------------------------------------------
(* The combined retriever as a state machine: __init__, then one call of
   semantic_search to sources that answer *)

NoSearchYet ==
    /\ top_k = 0
    /\ original_k = 0
    /\ expanded_k = 0
    /\ original_calls = <<>>
    /\ expanded_calls = <<>>
    /\ original_failed = FALSE
    /\ expanded_failed = FALSE
    /\ combined_results = <<>>
    /\ extended_hits = <<>>
    /\ search_raised = FALSE
    /\ original_results = <<>>

FusionInit ==
    /\ max_results \in 1..MaxCap
    /\ ratio \in {ClampRatio(r) : r \in -1..11}
    /\ has_search \in BOOLEAN
    /\ NoSearchYet
    /\ spc = "off"
    /\ responsive = Sources
    /\ ChunkerIdle
    /\ EmbedIdle
    /\ LaterIdle

SemanticSearch ==
    /\ top_k = 0
    /\ spc = "off"
    /\ \E k \in 1..MaxTopK :
        LET ek == ExpandedK(k, ratio)
            ok == OriginalK(k, ek)
        IN  \E o \in OriginalOutcomes(ok), e \in ExpandedOutcomes(ek) :
                /\ top_k' = k
                /\ expanded_k' = ek
                /\ original_k' = ok
                /\ original_calls' = <<ok>>
                /\ original_failed' = o.raises
                /\ original_results' = OriginalResults(o)
                /\ expanded_calls' = IF has_search THEN <<ek>> ELSE <<>>
                /\ expanded_failed' = (~has_search \/ e.raises)
                /\ extended_hits' = e.results
                /\ search_raised' = Propagates(o, has_search, e)
                /\ combined_results' =
                       IF Propagates(o, has_search, e) THEN <<>>
                       ELSE Fused(OriginalResults(o), ExpandedResults(has_search, e),
                                  max_results)
    /\ UNCHANGED <<max_results, ratio, has_search, spc, responsive, chunkVars,
                   embedVars, laterVars>>

FusionNext == SemanticSearch

FusionSpec == FusionInit /\ [][FusionNext]_vars

----------------------------------------------------------------------------
(* The same call followed lookup by lookup: semantic_search waits in line 67
   for the original retriever and in line 75 for the expansion service, and a
   source that is not responsive never answers *)

SteppedInit ==
    /\ max_results \in 1..MaxCap
    /\ ratio \in {ClampRatio(r) : r \in -1..11}
    /\ has_search \in BOOLEAN
    /\ NoSearchYet
    /\ spc = "ready"
    /\ responsive \in SUBSET Sources
    /\ ChunkerIdle
    /\ EmbedIdle
    /\ LaterIdle

\* lines 61-67: the two limits, then the call of the original retriever
BeginSearch ==
    /\ spc = "ready"
    /\ \E k \in 1..MaxTopK :
        /\ top_k' = k
        /\ expanded_k' = ExpandedK(k, ratio)
        /\ original_k' = OriginalK(k, ExpandedK(k, ratio))
        /\ original_calls' = <<OriginalK(k, ExpandedK(k, ratio))>>
    /\ spc' = "original"
    /\ UNCHANGED <<max_results, ratio, has_search, responsive, expanded_calls,
                   original_failed, expanded_failed, combined_results,
                   extended_hits, search_raised, original_results, chunkVars,
                   embedVars, laterVars>>

\* lines 67-75: the original retriever answers; the call goes on to the
\* expansion service, or ends here when the service has no `search`
OriginalAnswers ==
    /\ spc = "original"
    /\ "original" \in responsive
    /\ \E o \in OriginalOutcomes(original_k) :
        /\ original_failed' = o.raises
        /\ original_results' = OriginalResults(o)
        /\ IF has_search
           THEN /\ expanded_calls' = <<expanded_k>>
                /\ spc' = "expanded"
                /\ UNCHANGED <<expanded_failed, combined_results>>
           ELSE /\ expanded_calls' = <<>>
                /\ expanded_failed' = TRUE
                /\ combined_results' = Fused(OriginalResults(o), <<>>, max_results)
                /\ spc' = "done"
    /\ UNCHANGED <<max_results, ratio, has_search, responsive, top_k, original_k,
                   expanded_k, original_calls, extended_hits, search_raised,
                   chunkVars, embedVars, laterVars>>

\* lines 75-107: the expansion service answers and the call returns
ExpandedAnswers ==
    /\ spc = "expanded"
    /\ "expanded" \in responsive
    /\ \E e \in ExpandedOutcomes(expanded_k) :
        /\ expanded_failed' = e.raises
        /\ extended_hits' = e.results
        /\ combined_results' =
               Fused(original_results, ExpandedResults(has_search, e), max_results)
    /\ spc' = "done"
    /\ UNCHANGED <<max_results, ratio, has_search, responsive, top_k, original_k,
                   expanded_k, original_calls, expanded_calls, original_failed,
                   search_raised, original_results, chunkVars,
                   embedVars, laterVars>>

SteppedNext == BeginSearch \/ OriginalAnswers \/ ExpandedAnswers

SteppedSpec == SteppedInit /\ [][SteppedNext]_vars

----------------------------------------------------------------------------
(* Inputs of the chunker *)

\* the pieces the bounded documents are made of: a letter, a two-byte letter,
\* a space, a newline, a sentence end and a heading line
Tokens == { <<"a">>, <<"E9">>, <<" ">>, <<"\n">>, <<".">>, <<"#", " ", "a">> }

RECURSIVE Flatten(_)
Flatten(parts) == IF parts = <<>> THEN <<>> ELSE Head(parts) \o Flatten(Tail(parts))

\* "# Intro\n\nFlare is a blockchain.\n\n# FTSO\n\nFTSO provides price data."
ScenarioContent ==
    << "#", " ", "I", "n", "t", "r", "o", "\n", "\n", "F", "l", "a",
       "r", "e", " ", "i", "s", " ", "a", " ", "b", "l", "o", "c",
       "k", "c", "h", "a", "i", "n", ".", "\n", "\n", "#", " ", "F",
       "T", "S", "O", "\n", "\n", "F", "T", "S", "O", " ", "p", "r",
       "o", "v", "i", "d", "e", "s", " ", "p", "r", "i", "c", "e",
       " ", "d", "a", "t", "a", "." >>

\* " \n\na. a\n\naa": paragraphs, the first one blank, and no heading
ParagraphsContent ==
    << " ", "\n", "\n", "a", ".", " ", "a", "\n", "\n", "a", "a" >>

\* "aa a\n# a\n\na. aa\n\n# a": text before the first of two headings
HeadingsContent ==
    << "a", "a", " ", "a", "\n", "#", " ", "a", "\n", "\n", "a", ".", " ", "a", "a", "\n", "\n", "#", " ", "a" >>

Contents ==
    {Flatten(ts) : ts \in UNION {[1..k -> Tokens] : k \in 0..MaxTokens}}
        \cup {ScenarioContent, ParagraphsContent, HeadingsContent}

Documents == [id : {<<"d">>}, content : Contents]

ProcessorConfigs ==
    [chunk_size : (1..MaxChunkSize) \cup {30},
     chunk_overlap : {0, 5, 10},
     preserve_sections : BOOLEAN]

----------------------------------------------------------------------------
(* The chunker as a state machine: one call of chunk_document *)

ChunkerInit ==
    /\ document \in Documents
    /\ config \in ProcessorConfigs
    /\ document_chunks = <<>>
    /\ cpc = "ready"
    /\ FusionIdle
    /\ EmbedIdle
    /\ LaterIdle

ChunkDocument ==
    /\ cpc = "ready"
    /\ document_chunks' = chunk_document(document, config)
    /\ cpc' = "done"
    /\ UNCHANGED <<document, config, fusionVars, embedVars, laterVars>>

ChunkerNext == ChunkDocument

ChunkerSpec == ChunkerInit /\ [][ChunkerNext]_vars

----------------------------------------------------------------------------
(* GeminiEmbedding.embed_content

   A string is given by its size in UTF-8 bytes and None by -1; a time is a
   whole number of tenths of a second. *)

\* gemini.py, line 25
MAX_CONTENT_SIZE == 8000

\* embed_content, lines 260-267: the size of final_content
FinalContentSize(args) ==
    LET chosen == IF args.contents = 0 /\ args.content # -1
                  THEN args.content
                  ELSE args.contents
    IN  IF args.title # -1 /\ chosen # 0 /\ ~args.starts_with_title
        THEN args.title + 2 + chosen
        ELSE chosen

\* what self.client.models.embed_content does (lines 284-288): it gives a
\* vector, or raises the rate-limit error, or raises another error
ProviderResponses == {"vector", "ResourceExhaustedError", "OtherProviderError"}

\* lines 293-294: delay + random.uniform(0, 0.1 * delay), both ends included
SleepTimes(d) == {d + jitter : jitter \in 0..(d \div 10)}

\* a backoff that does not grow
NextDelayUnchanged(d) == d

\* line 297: delay *= 2
NextDelay(d) == 2 * d

\* a retry after every rate-limited call
MayRetryAlways(att, retries) == TRUE

\* line 291: the rate-limited call is retried
MayRetry(att, retries) == att < retries - 1

Raised(error) == [kind |-> "raised", error |-> error]

CallEvent(response) == [ev |-> "call", response |-> response]

SleepEvent(t) == [ev |-> "sleep", seconds |-> t]

Calls(tr) == {i \in 1..Len(tr) : tr[i].ev = "call"}

Sleeps(tr) == {i \in 1..Len(tr) : tr[i].ev = "sleep"}

\* the arguments of the bounded calls: contents that are empty, short or
\* larger than MAX_CONTENT_SIZE, with or without content and title
EmbedArgs ==
    {a \in [contents : {0, 1, MAX_CONTENT_SIZE + 1},
            content : {-1, 0, 1},
            title : {-1, 2},
            starts_with_title : BOOLEAN,
            max_retries : 0..MaxRetries,
            initial_delay : {10, 20}] :
        a.starts_with_title => (a.title # -1 /\ (a.contents > 1 \/ a.content > 1))}

EmbedInit ==
    /\ embed_args \in EmbedArgs
    /\ epc = "ready"
    /\ attempt = 0
    /\ delay = 0
    /\ trace = <<>>
    /\ embed_result = NoResult
    /\ ChunkerIdle
    /\ FusionIdle
    /\ LaterIdle

\* lines 259-279: the content to embed, then the locals of the loop
Prepare ==
    /\ epc = "ready"
    /\ IF FinalContentSize(embed_args) = 0
       THEN /\ epc' = "raised"
            /\ embed_result' = Raised([class |-> "ValueError"])
            /\ UNCHANGED <<attempt, delay>>
       ELSE /\ epc' = "loop"
            /\ attempt' = 0
            /\ delay' = embed_args.initial_delay
            /\ UNCHANGED embed_result
    /\ UNCHANGED <<embed_args, trace, chunkVars, fusionVars, laterVars>>

\* lines 281-306: one turn of the loop, the provider call and what follows it
Attempt ==
    /\ epc = "loop"
    /\ attempt < embed_args.max_retries
    /\ \E response \in ProviderResponses :
        LET error == [class |-> response, call |-> Cardinality(Calls(trace)) + 1]
        IN  \/ /\ response = "vector"
               /\ trace' = Append(trace, CallEvent(response))
               /\ epc' = "returned"
               /\ embed_result' = [kind |-> "vector"]
               /\ UNCHANGED <<attempt, delay>>
            \/ /\ response = "ResourceExhaustedError"
               /\ MayRetry(attempt, embed_args.max_retries)
               /\ \E sleep_time \in SleepTimes(delay) :
                      trace' = trace \o <<CallEvent(response), SleepEvent(sleep_time)>>
               /\ delay' = NextDelay(delay)
               /\ attempt' = attempt + 1
               /\ UNCHANGED <<epc, embed_result>>
            \/ /\ response = "ResourceExhaustedError"
               /\ ~MayRetry(attempt, embed_args.max_retries)
               /\ trace' = Append(trace, CallEvent(response))
               /\ epc' = "raised"
               /\ embed_result' = Raised(error)
               /\ UNCHANGED <<attempt, delay>>
            \/ /\ response = "OtherProviderError"
               /\ trace' = Append(trace, CallEvent(response))
               /\ epc' = "raised"
               /\ embed_result' = Raised(error)
               /\ UNCHANGED <<attempt, delay>>
    /\ UNCHANGED <<embed_args, chunkVars, fusionVars, laterVars>>

\* lines 281 and 308: the loop ends without a return
GiveUp ==
    /\ epc = "loop"
    /\ ~(attempt < embed_args.max_retries)
    /\ epc' = "raised"
    /\ embed_result' = Raised([class |-> "Exception"])
    /\ UNCHANGED <<embed_args, attempt, delay, trace, chunkVars, fusionVars,
                   laterVars>>

EmbedNext == Prepare \/ Attempt \/ GiveUp

EmbedSpec == EmbedInit /\ [][EmbedNext]_vars

----------------------------------------------------------------------------
(* text_utils.chunk_text *)

\* split_into_sentences, line 101: [s.strip() for s in sentences if s.strip()]
RECURSIVE StripNonEmpty(_)
StripNonEmpty(parts) ==
    IF parts = <<>> THEN <<>>
    ELSE IF Strip(Head(parts)) = <<>> THEN StripNonEmpty(Tail(parts))
         ELSE <<Strip(Head(parts))>> \o StripNonEmpty(Tail(parts))

\* split_into_sentences, lines 99-101
split_into_sentences(text) == StripNonEmpty(SplitSentences(text))

\* split_by_words, lines 119-128: the loop over the words
RECURSIVE WordLoop(_, _, _, _, _)
WordLoop(words, chunks, current_chunk, current_size, max_chunk_size) ==
    IF words = <<>>
    THEN [chunks |-> chunks, current_chunk |-> current_chunk]
    ELSE LET word == Head(words)
             word_size == calculate_text_size(word \o <<" ">>)
             full == current_size + word_size > max_chunk_size /\ current_chunk # <<>>
         IN  WordLoop(Tail(words),
                      IF full THEN Append(chunks, Join(current_chunk, <<" ">>))
                              ELSE chunks,
                      IF full THEN <<word>> ELSE Append(current_chunk, word),
                      IF full THEN word_size ELSE current_size + word_size,
                      max_chunk_size)

\* split_by_words, lines 114-133
split_by_words(text, max_chunk_size) ==
    LET st == WordLoop(Split(text), <<>>, <<>>, 0, max_chunk_size)
    IN  IF st.current_chunk # <<>>
        THEN Append(st.chunks, Join(st.current_chunk, <<" ">>))
        ELSE st.chunks

\* chunk_text, lines 53-70: the loop over the sentences of a long paragraph;
\* st holds chunks, current_chunk and current_size
RECURSIVE TextSentenceLoop(_, _, _)
TextSentenceLoop(sentences, st, max_chunk_size) ==
    IF sentences = <<>> THEN st
    ELSE LET sentence == Head(sentences)
             sentence_size == calculate_text_size(sentence)
             full == /\ st.current_size + sentence_size > max_chunk_size
                     /\ st.current_chunk # <<>>
             flushed ==
                 IF full
                 THEN [chunks |-> Append(st.chunks, Join(st.current_chunk, <<"\n", "\n">>)),
                       current_chunk |-> <<>>,
                       current_size |-> 0]
                 ELSE st
             next ==
                 IF sentence_size > max_chunk_size
                 THEN [flushed EXCEPT
                           !.chunks = @ \o split_by_words(sentence, max_chunk_size)]
                 ELSE [flushed EXCEPT
                           !.current_chunk = Append(@, sentence),
                           !.current_size = @ + sentence_size]
         IN  TextSentenceLoop(Tail(sentences), next, max_chunk_size)

\* chunk_text, lines 47-80: the loop over the paragraphs
RECURSIVE TextParagraphLoop(_, _, _)
TextParagraphLoop(paragraphs, st, max_chunk_size) ==
    IF paragraphs = <<>> THEN st
    ELSE LET paragraph == Head(paragraphs)
             paragraph_size == calculate_text_size(paragraph)
             full == /\ st.current_size + paragraph_size > max_chunk_size
                     /\ st.current_chunk # <<>>
             next ==
                 IF paragraph_size > max_chunk_size
                 THEN TextSentenceLoop(split_into_sentences(paragraph), st, max_chunk_size)
                 ELSE IF full
                 THEN [chunks |-> Append(st.chunks, Join(st.current_chunk, <<"\n", "\n">>)),
                       current_chunk |-> <<paragraph>>,
                       current_size |-> paragraph_size]
                 ELSE [st EXCEPT
                           !.current_chunk = Append(@, paragraph),
                           !.current_size = @ + paragraph_size]
         IN  TextParagraphLoop(Tail(paragraphs), next, max_chunk_size)

\* chunk_text, lines 36-86
chunk_text(text, max_chunk_size) ==
    IF calculate_text_size(text) <= max_chunk_size THEN <<text>>
    ELSE LET st == TextParagraphLoop(SplitParagraphs(text),
                                     [chunks |-> <<>>, current_chunk |-> <<>>,
                                      current_size |-> 0],
                                     max_chunk_size)
         IN  IF st.current_chunk # <<>>
             THEN Append(st.chunks, Join(st.current_chunk, <<"\n", "\n">>))
             ELSE st.chunks

----------------------------------------------------------------------------
(* QdrantCollection.process_document

   The limit MAX_CHUNK_SIZE, 7500 bytes in qdrant_collection.py line 18, is a
   parameter here, so that the bounded texts reach it.  The keys file_name,
   meta_data and last_updated, copied from the metadata, are left out. *)

\* process_document, lines 167-190: the records of the sub-chunks of chunk i
RECURSIVE SubchunkRecords(_, _, _, _, _)
SubchunkRecords(subchunks, j, i, num_chunks, limit) ==
    IF subchunks = <<>> THEN <<>>
    ELSE LET subchunk == Head(subchunks)
             rest == SubchunkRecords(Tail(subchunks), j + 1, i, num_chunks, limit)
         IN  IF calculate_text_size(subchunk) > limit THEN rest
             ELSE IF Strip(subchunk) = <<>> THEN rest
             ELSE <<[text |-> subchunk,
                     chunk_index |-> i * 1000 + j,
                     total_chunks |-> num_chunks * 1000,
                     is_subchunk |-> TRUE,
                     parent_chunk |-> i,
                     subchunk_index |-> j]>> \o rest

\* process_document, lines 153-201: the records of the chunks from index i on
RECURSIVE ChunkRecords(_, _, _, _)
ChunkRecords(chunks, i, num_chunks, limit) ==
    IF chunks = <<>> THEN <<>>
    ELSE LET chunk == Head(chunks)
             rest == ChunkRecords(Tail(chunks), i + 1, num_chunks, limit)
         IN  IF Strip(chunk) = <<>> THEN rest
             ELSE IF calculate_text_size(chunk) > limit
             THEN SubchunkRecords(chunk_text(chunk, limit), 0, i, num_chunks, limit)
                      \o rest
             ELSE <<[text |-> chunk,
                     chunk_index |-> i,
                     total_chunks |-> num_chunks,
                     is_subchunk |-> FALSE]>> \o rest

\* process_document, lines 138-206
process_document(content, limit) ==
    IF Strip(content) = <<>> THEN <<>>
    ELSE LET chunks == chunk_text(Strip(content), limit)
         IN  ChunkRecords(chunks, 0, Len(chunks), limit)

----------------------------------------------------------------------------
(* chunk_text and process_document as a state machine: one call of either *)

TextInit ==
    /\ tx_text \in Contents
    /\ tx_limit \in 1..MaxChunkSize
    /\ tx_chunks = <<>>
    /\ tx_records = <<>>
    /\ tpc = "ready"
    /\ EarlierIdle
    /\ IngestIdle /\ ExpandIdle /\ ResponderIdle /\ ChatIdle

ChunkText ==
    /\ tpc = "ready"
    /\ tx_chunks' = chunk_text(tx_text, tx_limit)
    /\ tpc' = "chunked"
    /\ UNCHANGED <<tx_text, tx_limit, tx_records, chunkVars, fusionVars, embedVars,
                   ingestVars, expandVars, respVars, chatVars>>

ProcessDocument ==
    /\ tpc = "ready"
    /\ tx_records' = process_document(tx_text, tx_limit)
    /\ tpc' = "processed"
    /\ UNCHANGED <<tx_text, tx_limit, tx_chunks, chunkVars, fusionVars, embedVars,
                   ingestVars, expandVars, respVars, chatVars>>

TextNext == ChunkText \/ ProcessDocument

TextSpec == TextInit /\ [][TextNext]_vars

----------------------------------------------------------------------------
(* QdrantCollection.generate_collection

   A row of the DataFrame is given by the number of records process_document
   returns for its content, and by -1 when its content is missing or is not a
   string.  A chunk is named by its row and its place in the row. *)

\* the attempts that stop at the first chunk whose embedding fails
EmbedAttemptsUntilFailure(row, n, ok) ==
    LET failed == {c \in 1..n : ~ok[c]}
        last == IF failed = {} THEN n ELSE Min(failed)
    IN  [c \in 1..last |-> [row |-> row, chunk |-> c, ok |-> ok[c]]]

\* generate_collection, lines 256-286: embed_content is called for every chunk
\* of the row; ok[c] tells whether the call for chunk c returned a vector
EmbedAttempts(row, n, ok) ==
    [c \in 1..n |-> [row |-> row, chunk |-> c, ok |-> ok[c]]]

\* generate_collection, lines 264-280: the points of the chunks that were embedded
RECURSIVE PointsOf(_)
PointsOf(attempts) ==
    IF attempts = <<>> THEN <<>>
    ELSE IF Head(attempts).ok
         THEN <<[row |-> Head(attempts).row, chunk |-> Head(attempts).chunk]>>
                  \o PointsOf(Tail(attempts))
         ELSE PointsOf(Tail(attempts))

\* _create_collection, lines 29-32: client.recreate_collection drops the
\* collection of that name, if there is one, and creates it anew
recreate_collection(collection) == [exists |-> TRUE, points |-> <<>>]

\* generate_collection, line 236: the row ends its batch
EndsBatch(row, df, batch_size) == row % batch_size = 0 \/ row = Len(df)

RowKinds == -1..MaxRowChunks

IngestInit ==
    /\ ing_df \in UNION {[1..n -> RowKinds] : n \in 0..MaxRows}
    /\ ing_batch_size \in 1..2
    /\ ing_collection \in {[exists |-> FALSE, points |-> <<>>],
                           [exists |-> TRUE, points |-> <<>>],
                           [exists |-> TRUE, points |-> <<[row |-> 0, chunk |-> 1]>>]}
    /\ ing_row = 0
    /\ ing_batch_points = <<>>
    /\ ing_embedded = <<>>
    /\ ing_upserts = <<>>
    /\ ing_raised = FALSE
    /\ ipc = "ready"
    /\ EarlierIdle
    /\ TextIdle /\ ExpandIdle /\ ResponderIdle /\ ChatIdle

\* generate_collection, lines 218-233: the collection is set up, and the call
\* returns when it has points
StartIngest ==
    /\ ipc = "ready"
    /\ \E created \in BOOLEAN :
        IF ~created
        THEN /\ ing_raised' = TRUE
             /\ ipc' = "done"
             /\ UNCHANGED ing_collection
        ELSE /\ ing_collection' = recreate_collection(ing_collection)
             /\ ing_raised' = FALSE
             /\ ipc' = IF Len(recreate_collection(ing_collection).points) > 0
                          \/ Len(ing_df) = 0
                       THEN "done" ELSE "rows"
    /\ UNCHANGED <<ing_df, ing_batch_size, ing_row, ing_batch_points, ing_embedded,
                   ing_upserts, chunkVars, fusionVars, embedVars, textVars,
                   expandVars, respVars, chatVars>>

\* generate_collection, lines 240-315: one row, and the upload of the batch
\* when the row is the last one of its batch
IngestRow ==
    /\ ipc = "rows"
    /\ ing_row < Len(ing_df)
    /\ LET row == ing_row + 1
           n == Max({0, ing_df[row]})
       IN  \E ok \in [1..n -> BOOLEAN], uploaded \in BOOLEAN :
               LET attempts == EmbedAttempts(row, n, ok)
                   batch_points == ing_batch_points \o PointsOf(attempts)
                   upload == EndsBatch(row, ing_df, ing_batch_size)
                                 /\ batch_points # <<>>
               IN  /\ ing_embedded' = ing_embedded \o attempts
                   /\ ing_row' = row
                   /\ ing_batch_points' =
                          IF EndsBatch(row, ing_df, ing_batch_size)
                          THEN <<>> ELSE batch_points
                   /\ ing_upserts' =
                          IF upload THEN Append(ing_upserts, batch_points)
                          ELSE ing_upserts
                   /\ ing_collection' =
                          IF upload /\ uploaded
                          THEN [ing_collection EXCEPT !.points = @ \o batch_points]
                          ELSE ing_collection
                   /\ (~upload) => uploaded
                   /\ ipc' = IF row = Len(ing_df) THEN "done" ELSE "rows"
    /\ UNCHANGED <<ing_df, ing_batch_size, ing_raised, chunkVars, fusionVars,
                   embedVars, textVars, expandVars, respVars, chatVars>>

IngestNext == StartIngest \/ IngestRow

IngestSpec == IngestInit /\ [][IngestNext]_vars

----------------------------------------------------------------------------
(* DataExpansionService.expand_dataset

   A source is given by its `enabled` key, the number of documents scraping
   it yields, the number of chunks of each of them, and the document at which
   scraping, saving, chunking or storing raises (0: none does). *)

\* expand_dataset, lines 105-126: the number of documents after which the
\* loop over the documents of one source ends, when nothing raises
DocsReached(source, limit) ==
    IF source.docs = 0 THEN 0 ELSE Min({source.docs, Max({1, limit})})

\* expand_dataset, lines 93-141: the documents of the source that are saved,
\* chunked and stored, and whether the loop ended by an exception
SourceRun(source, limit) ==
    LET reached == DocsReached(source, limit)
    IN  IF source.fails_at # 0 /\ source.fails_at <= reached
        THEN [docs |-> source.fails_at - 1, raised |-> TRUE]
        ELSE [docs |-> reached, raised |-> FALSE]

ExpandSources ==
    {src \in [enabled : BOOLEAN, docs : 0..MaxSourceDocs, chunks : 1..2,
              fails_at : 0..MaxSourceDocs] :
        /\ src.fails_at <= src.docs
        /\ ~src.enabled => (src.docs = 0 /\ src.chunks = 1)}

ExpandInit ==
    /\ exp_config \in [enabled : BOOLEAN, max_documents_per_run : 1..MaxDocsPerRun]
    /\ exp_sources \in UNION {[1..n -> ExpandSources] : n \in 0..MaxSources}
    /\ exp_next = 0
    /\ exp_processed = 0
    /\ exp_results = NoResults
    /\ xpc = "ready"
    /\ EarlierIdle
    /\ TextIdle /\ IngestIdle /\ ResponderIdle /\ ChatIdle

\* expand_dataset, lines 73-85
StartExpand ==
    /\ xpc = "ready"
    /\ xpc' = IF exp_config.enabled THEN "sources" ELSE "disabled"
    /\ UNCHANGED <<exp_config, exp_sources, exp_next, exp_processed, exp_results,
                   chunkVars, fusionVars, embedVars, textVars, ingestVars,
                   respVars, chatVars>>

\* expand_dataset, lines 88-141: one turn of the loop over the sources
ProcessSource ==
    /\ xpc = "sources"
    /\ exp_next < Len(exp_sources)
    /\ LET source == exp_sources[exp_next + 1]
           run == SourceRun(source, exp_config.max_documents_per_run)
       IN  /\ exp_next' = exp_next + 1
           /\ IF ~source.enabled
              THEN UNCHANGED <<exp_processed, exp_results>>
              ELSE /\ exp_processed' = exp_processed + run.docs
                   /\ exp_results' =
                          IF run.raised
                          THEN [exp_results EXCEPT !.errors = Append(@, exp_next + 1)]
                          ELSE [exp_results EXCEPT
                                    !.sources_processed = @ + 1,
                                    !.documents_collected = @ + run.docs,
                                    !.chunks_stored = @ + run.docs * source.chunks]
    /\ UNCHANGED <<exp_config, exp_sources, xpc, chunkVars, fusionVars, embedVars,
                   textVars, ingestVars, respVars, chatVars>>

\* expand_dataset, lines 143-158: the loop is over and results is returned
FinishExpand ==
    /\ xpc = "sources"
    /\ exp_next = Len(exp_sources)
    /\ xpc' = "done"
    /\ UNCHANGED <<exp_config, exp_sources, exp_next, exp_processed, exp_results,
                   chunkVars, fusionVars, embedVars, textVars, ingestVars,
                   respVars, chatVars>>

ExpandNext == StartExpand \/ ProcessSource \/ FinishExpand

ExpandSpec == ExpandInit /\ [][ExpandNext]_vars

----------------------------------------------------------------------------
(* GeminiResponder.generate_response

   A context document is given by the kind of its content: "text", "blank"
   (no content, or whitespace only) or "imports" (import statements only).
   The LLM answers a prompt by a text, by a text that holds a template
   placeholder, or by raising. *)

DocKinds == {"text", "blank", "imports"}

LLMOutcomes == {"text", "placeholder", "raises"}

\* _format_context, lines 134-172: the documents that are kept, each under
\* its number in the context
RECURSIVE FormatFrom(_, _)
FormatFrom(context, i) ==
    IF i > Len(context) THEN <<>>
    ELSE IF context[i] = "text"
         THEN <<[doc |-> i, content |-> context[i]]>> \o FormatFrom(context, i + 1)
         ELSE FormatFrom(context, i + 1)

\* _format_context, lines 122-175
format_context(context) == FormatFrom(context, 1)

\* lines 82-89, 111-120 and 226-233: what is returned for the answer of the LLM
Answer(outcome, template) ==
    IF outcome = "raises" THEN [kind |-> "raised", template |-> template]
    ELSE IF outcome = "placeholder" THEN [kind |-> "apology", template |-> template]
    ELSE [kind |-> "llm", template |-> template]

\* generate_response, lines 63-120: the prompts sent to the LLM; the first
\* call gets outcome `direct`, the second one, if any, outcome `second`
PromptsSent(context, direct, second) ==
    <<[template |-> "DIRECT_ANSWER_PROMPT", context |-> <<>>]>> \o
    (IF direct # "raises" THEN <<>>
     ELSE IF context = <<>>
          THEN <<[template |-> "RESPONDER_NO_CONTEXT_PROMPT", context |-> <<>>]>>
          ELSE <<[template |-> "RESPONDER_SYSTEM_PROMPT",
                  context |-> format_context(context)]>>)

\* generate_response, lines 63-120: what the call returns or raises
generate_response(context, direct, second) ==
    IF direct # "raises" THEN Answer(direct, "DIRECT_ANSWER_PROMPT")
    ELSE IF context = <<>> THEN Answer(second, "RESPONDER_NO_CONTEXT_PROMPT")
    ELSE Answer(second, "RESPONDER_SYSTEM_PROMPT")

ResponderInit ==
    /\ rsp_context \in UNION {[1..n -> DocKinds] : n \in 0..MaxContext}
    /\ rsp_prompts = <<>>
    /\ rsp_answer = [kind |-> "none"]
    /\ rpc = "ready"
    /\ EarlierIdle
    /\ TextIdle /\ IngestIdle /\ ExpandIdle /\ ChatIdle

GenerateResponse ==
    /\ rpc = "ready"
    /\ \E direct \in LLMOutcomes, second \in LLMOutcomes :
        /\ direct # "raises" => second = "text"
        /\ rsp_prompts' = PromptsSent(rsp_context, direct, second)
        /\ rsp_answer' = generate_response(rsp_context, direct, second)
    /\ rpc' = "done"
    /\ UNCHANGED <<rsp_context, chunkVars, fusionVars, embedVars, textVars,
                   ingestVars, expandVars, chatVars>>

ResponderNext == GenerateResponse

ResponderSpec == ResponderInit /\ [][ResponderNext]_vars

----------------------------------------------------------------------------
(* ChatRouter (the chat endpoint and its handlers) and GeminiProvider

   One ChatRouter, with one Vtpm and one GeminiProvider, serves every
   request.  No handler suspends between its first and its last statement
   (the calls it awaits are coroutines that call blocking functions), so a
   request is handled in one step.  chat_log records, for every request
   handled, the user who sent it, the path the handler took, the text
   returned and the number of calls made to the chat service of the
   provider.  A user message is recorded in chat_history by its sender. *)

Users == {"u1", "u2"}

Routes == {"RAG_RESPONDER", "REQUEST_ATTESTATION", "CONVERSATIONAL"}

\* Vtpm.get_token as the chat endpoint uses it: a token, or VtpmAttestationError
TokenOutcomes == {"token", "VtpmAttestationError"}

\* client.chats.create and the sending of the system instruction, lines 171-175
InitOutcomes == {"ok", "create_APIError", "instruction_APIError",
                 "create_raises", "instruction_raises"}

\* chat.send_message(msg), line 193
SendOutcomes == {"answered", "raises"}

\* the provider's fields
Provider == [chat |-> chat, chat_history |-> chat_history,
             initialization_error |-> initialization_error]

UserEntry(user) == [role |-> "user", content |-> user]

AssistantEntriesNone(text) == <<>>

\* lines 156, 181, 197, 212: the entry of the assistant
AssistantEntries(text) == <<[role |-> "assistant", content |-> text]>>

\* send_message, lines 137-222: the provider's fields after the call, the text
\* returned and the number of calls made to the chat service
send_message(p, user, init, send) ==
    LET history == Append(p.chat_history, UserEntry(user))
        Result(c, e, text, calls) ==
            [chat |-> c, chat_history |-> history \o AssistantEntries(text),
             initialization_error |-> e, text |-> text, calls |-> calls]
        SendTo(c, calls) ==
            IF send = "answered" THEN Result(c, "None", "answer", calls + 1)
            ELSE Result(c, "None", "send_error", calls + 1)
    IN  IF p.initialization_error # "None"
        THEN Result(p.chat, p.initialization_error, "recorded_error", 0)
        ELSE IF p.chat # "None" THEN SendTo(p.chat, 0)
        ELSE IF init = "create_APIError"
             THEN Result("None", "APIError", "initialization_error", 1)
        ELSE IF init = "instruction_APIError"
             THEN Result("session", "APIError", "initialization_error", 2)
        ELSE IF init = "create_raises" THEN Result("None", "None", "send_error", 1)
        ELSE IF init = "instruction_raises"
             THEN Result("session", "None", "send_error", 2)
        ELSE SendTo("session", 2)

FlagAfterTokenKeptOnFailure(token) == token # "token"

\* chat, line 89: attestation_requested after get_token returned or failed
FlagAfterToken(token) == FALSE

ChatInit ==
    /\ att_requested = FALSE
    /\ chat = "None"
    /\ chat_history = <<>>
    /\ initialization_error = "None"
    /\ chat_log = <<>>
    /\ kpc = "serving"
    /\ EarlierIdle
    /\ TextIdle /\ IngestIdle /\ ExpandIdle /\ ResponderIdle

\* the chat endpoint, lines 74-97, with the handler it routes to
Chat ==
    /\ kpc = "serving"
    /\ Len(chat_log) < MaxRequests
    /\ \E user \in Users :
        LET Entry(path, text, calls) ==
                [user |-> user, path |-> path, text |-> text, calls |-> calls]
        IN
        IF att_requested
        THEN \* lines 84-90
             \E token \in TokenOutcomes :
                 /\ att_requested' = FlagAfterToken(token)
                 /\ chat_log' = Append(chat_log,
                        Entry("get_token",
                              IF token = "token" THEN "token"
                              ELSE "attestation_failed", 0))
                 /\ UNCHANGED <<chat, chat_history, initialization_error>>
        ELSE \* lines 92-93
             \E route \in Routes :
                 IF route = "RAG_RESPONDER"
                 THEN \* handle_rag_pipeline, lines 169-231
                      /\ chat_log' = Append(chat_log,
                             Entry("handle_rag_pipeline", "rag", 0))
                      /\ UNCHANGED <<att_requested, chat, chat_history,
                                     initialization_error>>
                 ELSE IF route = "REQUEST_ATTESTATION"
                 THEN \* handle_attestation, lines 233-251
                      \E generated \in BOOLEAN :
                          IF generated
                          THEN /\ att_requested' = TRUE
                               /\ chat_log' = Append(chat_log,
                                      Entry("handle_attestation", "attestation", 0))
                               /\ UNCHANGED <<chat, chat_history,
                                              initialization_error>>
                          ELSE /\ chat_log' = Append(chat_log,
                                      Entry("HTTPException", "500", 0))
                               /\ UNCHANGED <<att_requested, chat, chat_history,
                                              initialization_error>>
                 ELSE \* handle_conversation, lines 253-264
                      \E init \in InitOutcomes, send \in SendOutcomes :
                          LET sent == send_message(Provider, user, init, send)
                          IN  /\ chat' = sent.chat
                              /\ chat_history' = sent.chat_history
                              /\ initialization_error' = sent.initialization_error
                              /\ chat_log' = Append(chat_log,
                                     Entry("handle_conversation", sent.text,
                                           sent.calls))
                              /\ UNCHANGED att_requested
    /\ UNCHANGED <<kpc, chunkVars, fusionVars, embedVars, textVars, ingestVars,
                   expandVars, respVars>>

\* GeminiProvider.reset, lines 66-71
Reset ==
    /\ kpc = "serving"
    /\ chat' = "None"
    /\ chat_history' = <<>>
    /\ initialization_error' = "None"
    /\ UNCHANGED <<att_requested, chat_log, kpc, chunkVars, fusionVars, embedVars,
                   textVars, ingestVars, expandVars, respVars>>

\* GeminiProvider.reset_model, lines 73-82
ResetModel ==
    /\ kpc = "serving"
    /\ chat' = "None"
    /\ chat_history' = <<>>
    /\ initialization_error' = "None"
    /\ UNCHANGED <<att_requested, chat_log, kpc, chunkVars, fusionVars, embedVars,
                   textVars, ingestVars, expandVars, respVars>>

ChatNext == Chat \/ Reset \/ ResetModel

ChatSpec == ChatInit /\ [][ChatNext]_vars

----------------------------------------------------------------------------
(* Properties of SemanticChunker.chunk_document (under ChunkerSpec) *)

Range(seq) == {seq[i] : i \in 1..Len(seq)}

Returned == cpc = "done"

\* the whole content is within chunk_size bytes and is not blank
FitsInOneChunk ==
    /\ Strip(document.content) # <<>>
    /\ calculate_text_size(document.content) <= config.chunk_size

\* C1: every chunk chunk_document returns has content of at most chunk_size
\* UTF-8 bytes, for every document and every configuration.
C1_ChunkWithinSize ==
    Returned =>
        \A i \in 1..Len(document_chunks) :
            calculate_text_size(document_chunks[i].content) <= config.chunk_size

\* C2: the chunks returned are numbered 0, 1, ..., N-1 in the order returned,
\* each has the id "{document_id}_{chunk_index}" and total_chunks = N, N being
\* the number of chunks returned; skipped blank sections leave no gap.
C2_ContiguousIndex ==
    Returned =>
        \A i \in 1..Len(document_chunks) :
            /\ document_chunks[i].chunk_index = i - 1
            /\ document_chunks[i].id = ChunkId(document.id, i - 1)
            /\ document_chunks[i].document_id = document.id
            /\ document_chunks[i].total_chunks = Len(document_chunks)

\* C2 witness: a blank section was skipped before a section that was split into
\* several chunks, and chunks were returned on both sides of a split
C2_Witness ==
    /\ Returned
    /\ Len(document_chunks) >= 3
    /\ LET sections == extract_sections(document.content, config)
       IN  \E j, k \in 1..Len(sections) :
               /\ j < k
               /\ SkipSection(sections[j])
               /\ ~SkipSection(sections[k])
               /\ Len(sections[k]) > config.chunk_size

\* C3: no text is dropped: every whitespace-separated token of the document's
\* content is a token of the content of some returned chunk.
C3_NoTokenDropped ==
    Returned =>
        \A w \in Range(Split(document.content)) :
            \E i \in 1..Len(document_chunks) :
                w \in Range(Split(document_chunks[i].content))

\* C3 witness: a document with text before its first heading, chunked along its
\* headings, with a section split further
C3_Witness ==
    /\ Returned
    /\ config.preserve_sections
    /\ Headings(document.content) # <<>>
    /\ LeadingSection(document.content, Headings(document.content)) # <<>>
    /\ Len(document_chunks) >= 3

\* C4: a document whose content is empty or only whitespace gives no chunk.
C4_BlankGivesNoChunk ==
    (Returned /\ Strip(document.content) = <<>>) => document_chunks = <<>>

\* C4 witness: whitespace-only content longer than chunk_size, with a blank-line
\* separator in it, chunked with preserve_sections
C4_Witness ==
    /\ Returned
    /\ config.preserve_sections
    /\ document.content # <<>>
    /\ Strip(document.content) = <<>>
    /\ Len(document.content) > config.chunk_size
    /\ Len(SplitParagraphs(document.content)) > 1
    /\ document_chunks = <<>>

\* C5 as claimed: a non-blank document whose content is within chunk_size gives
\* exactly one chunk, whose content is the input content stripped.
C5_FitsGivesOneTrimmedChunk ==
    (Returned /\ FitsInOneChunk) =>
        /\ Len(document_chunks) = 1
        /\ document_chunks[1].content = Strip(document.content)

\* C5 as amended: a non-blank document whose content is within chunk_size and,
\* with preserve_sections, has no heading line gives exactly one chunk; its
\* content is the input content itself (not stripped) when preserve_sections is
\* off or the content has no blank-line separator, and has in any case the
\* tokens of the input in the same order.
C5_FitsGivesOneChunk ==
    (/\ Returned
     /\ FitsInOneChunk
     /\ (config.preserve_sections => Headings(document.content) = <<>>)) =>
        /\ Len(document_chunks) = 1
        /\ Split(document_chunks[1].content) = Split(document.content)
        /\ (~config.preserve_sections \/ Len(SplitParagraphs(document.content)) = 1)
               => document_chunks[1].content = document.content

\* C5 witness: a fitting document with a blank-line separator whose only chunk
\* differs from the input
C5_Witness ==
    /\ Returned
    /\ FitsInOneChunk
    /\ config.preserve_sections
    /\ Headings(document.content) = <<>>
    /\ Len(SplitParagraphs(document.content)) > 1
    /\ Len(document_chunks) = 1
    /\ document_chunks[1].content # document.content

\* C7: the two-heading scenario document chunked with chunk_size 30 and
\* preserve_sections gives 2 chunks, one per heading section, each of at most
\* 30 bytes, with total_chunks 2 on both.
C7_ScenarioTwoChunks ==
    (/\ Returned
     /\ document.content = ScenarioContent
     /\ config.chunk_size = 30
     /\ config.preserve_sections) =>
        /\ Len(document_chunks) = 2
        /\ document_chunks =
               SetTotalChunks(
                   [i \in 1..2 |->
                       NewChunk(document,
                                HeadingSections(ScenarioContent,
                                                Headings(ScenarioContent), 1)[i],
                                i - 1)])
        /\ \A i \in 1..Len(document_chunks) :
               /\ calculate_text_size(document_chunks[i].content) <= 30
               /\ document_chunks[i].total_chunks = 2

----------------------------------------------------------------------------
(* Properties of CombinedRetriever.semantic_search (under FusionSpec) *)

Searched == top_k > 0

\* C8: the list returned has at most min(top_k, max_results) entries.
C8_AtMostTopK ==
    Searched => Len(combined_results) <= Min({top_k, max_results})

\* C9: the list returned is sorted by score, best first, and results of equal
\* score keep their retrieval order, the original (primary) ones before the
\* expanded (secondary) ones.
C9_SortedStable ==
    Searched =>
        \A i, j \in 1..Len(combined_results) :
            i < j =>
                LET a == combined_results[i]
                    b == combined_results[j]
                IN  /\ a.score >= b.score
                    /\ a.score = b.score =>
                           \/ a.source = "original" /\ b.source = "expanded"
                           \/ a.source = b.source /\ a.text[2] < b.text[2]

\* C9 witness: results of both sources were merged, an expanded result was
\* moved before an original one, and two results of different sources tie
C9_Witness ==
    /\ Searched
    /\ Len(combined_results) >= 3
    /\ combined_results[1].source = "expanded"
    /\ \E i, j \in 1..Len(combined_results) :
           /\ i < j
           /\ combined_results[i].score = combined_results[j].score
           /\ combined_results[i].source = "original"
           /\ combined_results[j].source = "expanded"

\* C10: with ratio 0 the expanded (secondary) source is not queried and only
\* original results are returned; with ratio 1 the original (primary) source
\* is not queried and only expanded results are returned.
C10_RatioBoundary ==
    Searched =>
        /\ ratio = 0 =>
               /\ expanded_calls = <<>>
               /\ \A i \in 1..Len(combined_results) :
                      combined_results[i].source = "original"
        /\ ratio = 10 =>
               /\ original_calls = <<>>
               /\ \A i \in 1..Len(combined_results) :
                      combined_results[i].source = "expanded"

\* n / d rounded to the nearest integer, a tie going to the even one
RoundNearest(n, d) ==
    LET q == n \div d
        r == n % d
    IN  IF 2 * r < d THEN q
        ELSE IF 2 * r > d THEN q + 1
        ELSE IF q % 2 = 0 THEN q ELSE q + 1

\* C11: for a ratio strictly between 0 and 1 the expanded (secondary) source
\* is asked for max(1, round(top_k * ratio)) results and the original
\* (primary) one for max(1, top_k - secondary_k).
C11_RoundedSplit ==
    (Searched /\ ratio > 0 /\ ratio < 10) =>
        LET secondary_k == Max({1, RoundNearest(top_k * ratio, 10)})
            primary_k == Max({1, top_k - secondary_k})
        IN  /\ expanded_k = secondary_k
            /\ original_k = primary_k
            /\ original_calls = <<primary_k>>
            /\ has_search => expanded_calls = <<secondary_k>>

\* C12: when the original (primary) retriever raises while the extended
\* dataset has results for the query, the call raises nothing and returns
\* those results, sorted and capped: a list that is not empty.
C12_PrimaryFailureGivesSecondary ==
    (Searched /\ original_failed /\ extended_hits # <<>>) =>
        /\ ~search_raised
        /\ combined_results # <<>>
        /\ combined_results = Fused(<<>>, extended_hits, max_results)

\* C13: whichever of the two sources raise, the call raises nothing and
\* returns a list, the empty one when both sources raise.
C13_NeverRaises ==
    Searched =>
        /\ ~search_raised
        /\ (original_failed /\ expanded_failed) => combined_results = <<>>

\* C13 witness: the original retriever and expansion_service.search were both
\* called and both raised
C13_Witness ==
    /\ Searched
    /\ original_calls # <<>>
    /\ expanded_calls # <<>>
    /\ original_failed
    /\ expanded_failed

\* C14: with a DataExpansionService, which has no method `search`, and an
\* extended dataset that holds results for the query, the expansion service is
\* queried.
C14_ExpansionServiceQueried ==
    (Searched /\ ~has_search /\ extended_hits # <<>>) => expanded_calls # <<>>

\* C15: every result returned carries the tag of the source that produced it,
\* and every expanded (secondary) result has the fields text, score and
\* metadata of an original (primary) result.
C15_TaggedSameShape ==
    Searched =>
        \A i \in 1..Len(combined_results) :
            LET r == combined_results[i]
            IN  /\ "source" \in DOMAIN r
                /\ r.source = "original" <=> r.text[1] = "o"
                /\ r.source = "expanded" <=> r.text[1] = "e"
                /\ r.source = "expanded" =>
                       {"text", "score", "metadata"} \subseteq DOMAIN r

----------------------------------------------------------------------------
(* Properties of CombinedRetriever.semantic_search (under SteppedSpec) *)

\* C16: a call that waits for a source is never blocked: it goes on, by the
\* answer of the source or by the deadline, also when the source never answers.
C16_SlowSourceDoesNotBlock ==
    spc \in {"original", "expanded"} => ENABLED SteppedNext

----------------------------------------------------------------------------
(* Properties of GeminiEmbedding.embed_content (under EmbedSpec) *)

\* every provider call made so far was answered by the rate-limit error
AllRateLimited ==
    \A i \in Calls(trace) : trace[i].response = "ResourceExhaustedError"

\* the k-th delay of the backoff: initial_delay, then twice the one before
RECURSIVE BackoffDelay(_)
BackoffDelay(k) ==
    IF k = 1 THEN embed_args.initial_delay ELSE 2 * BackoffDelay(k - 1)

\* C17: when every provider call is answered by the rate-limit error, there
\* are at most max_retries retries, the wait before the k-th retry lies in
\* [d_k, 1.1 * d_k] with d_1 = initial_delay and d_(k+1) = 2 * d_k, and each
\* wait comes between the call that failed and the next call.
C17_BoundedBackoff ==
    AllRateLimited =>
        /\ Cardinality(Sleeps(trace)) <= embed_args.max_retries
        /\ \A i \in Sleeps(trace) :
               LET k == Cardinality({j \in Sleeps(trace) : j <= i})
               IN  /\ trace[i].seconds >= BackoffDelay(k)
                   /\ 10 * trace[i].seconds <= 11 * BackoffDelay(k)
                   /\ i > 1 /\ trace[i - 1].ev = "call"
                   /\ i < Len(trace) => trace[i + 1].ev = "call"
        /\ \A i \in Calls(trace) : i > 1 => trace[i - 1].ev = "sleep"
        /\ (epc = "loop" /\ trace # <<>>) => trace[Len(trace)].ev = "sleep"

\* C17 witness: three rate-limited calls with a wait before the second and a
\* longer wait, with jitter, before the third
C17_Witness ==
    /\ AllRateLimited
    /\ epc = "raised"
    /\ Cardinality(Calls(trace)) = 3
    /\ Cardinality(Sleeps(trace)) = 2
    /\ trace[4].seconds > 2 * embed_args.initial_delay

\* the call ended after max_retries provider calls, all of them rate limited
RetriesExhausted ==
    /\ epc \in {"returned", "raised"}
    /\ AllRateLimited
    /\ embed_args.max_retries >= 1
    /\ Cardinality(Calls(trace)) = embed_args.max_retries

\* C18: when rate limiting lasts through the whole retry budget, the call
\* fails with a RateLimitExceeded error that carries the provider error of the
\* last call; it returns no vector and fails with no other kind of error.
C18_RateLimitExceeded ==
    RetriesExhausted =>
        /\ embed_result.kind = "raised"
        /\ embed_result.error.class = "RateLimitExceeded"
        /\ "cause" \in DOMAIN embed_result.error
        /\ embed_result.error.cause =
               [class |-> "ResourceExhaustedError", call |-> embed_args.max_retries]

\* C19: when a provider call fails with an error that is no rate-limit
\* signal, no provider call and no sleep follows it, and the call fails with
\* an EmbeddingProviderError.
C19_OtherErrorFailsAtOnce ==
    \A i \in Calls(trace) :
        trace[i].response = "OtherProviderError" =>
            /\ i = Len(trace)
            /\ epc = "raised"
            /\ embed_result.kind = "raised"
            /\ embed_result.error.class = "EmbeddingProviderError"

\* C20: a content of more than MAX_CONTENT_SIZE bytes makes the call fail with
\* ContentTooLarge; the provider is not called and nothing is retried.
C20_ContentTooLarge ==
    FinalContentSize(embed_args) > MAX_CONTENT_SIZE =>
        /\ trace = <<>>
        /\ epc \in {"returned", "raised"} =>
               /\ embed_result.kind = "raised"
               /\ embed_result.error.class = "ContentTooLarge"

\* the call has ended
EmbedEnded == epc \in {"returned", "raised"}

\* the trace is a provider call, then a sleep and a provider call any number
\* of times: one sleep between two consecutive calls and none elsewhere
CallsAndSleepsAlternate ==
    \A i \in 1..Len(trace) :
        trace[i].ev = IF i % 2 = 1 THEN "call" ELSE "sleep"

\* the call ended with the vector or with the error of its last provider call
EndsWithProviderOutcome ==
    /\ trace # <<>>
    /\ trace[Len(trace)].ev = "call"
    /\ \/ embed_result = [kind |-> "vector"]
       \/ /\ embed_result.kind = "raised"
          /\ embed_result.error =
                 [class |-> trace[Len(trace)].response,
                  call |-> Cardinality(Calls(trace))]
          /\ trace[Len(trace)].response # "vector"

\* the generic exception of line 308 is raised only for max_retries <= 0,
\* without a provider call
GenericOnlyWithoutBudget ==
    (embed_result.kind = "raised" /\ embed_result.error.class = "Exception") =>
        (embed_args.max_retries <= 0 /\ trace = <<>>)

----------------------------------------------------------------------------
(* Properties of chunk_text and process_document (under TextSpec) *)

\* C23: every chunk returned by chunk_text has at most max_chunk_size bytes.
C23_ChunkTextWithinSize ==
    tpc = "chunked" =>
        \A i \in 1..Len(tx_chunks) : calculate_text_size(tx_chunks[i]) <= tx_limit

\* C27: the records process_document returns for a document all carry the
\* number of records as total_chunks, and their chunk_index values are 0..N-1
\* in order.
C27_ContiguousRecords ==
    tpc = "processed" =>
        \A i \in 1..Len(tx_records) :
            /\ tx_records[i].total_chunks = Len(tx_records)
            /\ tx_records[i].chunk_index = i - 1

----------------------------------------------------------------------------
(* Properties of QdrantCollection.generate_collection (under IngestSpec) *)

\* the chunks of the rows 1..n, in order
RECURSIVE ChunksOfRows(_)
ChunksOfRows(n) ==
    IF n = 0 THEN <<>>
    ELSE ChunksOfRows(n - 1)
             \o [c \in 1..Max({0, ing_df[n]}) |-> [row |-> n, chunk |-> c]]

\* C21: a chunk whose embedding fails is skipped and nothing else: every chunk
\* of every row handled so far was given to embed_content, every chunk that
\* was embedded is in the batch being built or in a batch given to upsert, the
\* call handles every row, and it does not raise once it has started on them.
C21_FailedChunkSkipped ==
    ipc \in {"rows", "done"} =>
        /\ [i \in 1..Len(ing_embedded) |->
               [row |-> ing_embedded[i].row, chunk |-> ing_embedded[i].chunk]]
               = ChunksOfRows(ing_row)
        /\ \A i \in 1..Len(ing_embedded) :
               ing_embedded[i].ok =>
                   \/ \E b \in 1..Len(ing_upserts) : \E k \in 1..Len(ing_upserts[b]) :
                          ing_upserts[b][k] = [row |-> ing_embedded[i].row,
                                               chunk |-> ing_embedded[i].chunk]
                   \/ \E k \in 1..Len(ing_batch_points) :
                          ing_batch_points[k] = [row |-> ing_embedded[i].row,
                                                 chunk |-> ing_embedded[i].chunk]
        /\ ing_raised => ing_embedded = <<>>
        /\ (ipc = "done" /\ ~ing_raised) => ing_row = Len(ing_df)

\* C21 witness: the embedding of the first chunk of a row failed, the next
\* chunk of the row was embedded and uploaded, and so was a chunk of a later row
C21_Witness ==
    /\ ipc = "done"
    /\ ~ing_raised
    /\ \E i \in 1..(Len(ing_embedded) - 2) :
           /\ ~ing_embedded[i].ok
           /\ ing_embedded[i + 1].row = ing_embedded[i].row
           /\ ing_embedded[i + 1].ok
    /\ \E k \in 1..Len(ing_collection.points) : ing_collection.points[k].row = 1
    /\ \E k \in 1..Len(ing_collection.points) : ing_collection.points[k].row = 2

\* C25: a call for a collection that has points generates no embedding, makes
\* no upsert and leaves the points in place.
C25_ExistingPointsKept ==
    [][(ipc = "ready" /\ ing_collection.exists /\ ing_collection.points # <<>>) =>
           /\ ing_collection' = ing_collection
           /\ ing_embedded' = <<>>
           /\ ing_upserts' = <<>>
           /\ ipc' = "done"]_vars

----------------------------------------------------------------------------
(* Properties of DataExpansionService.expand_dataset (under ExpandSpec) *)

\* C24: in one run, the documents saved, chunked and stored over all sources
\* are at most max_documents_per_run, and so is documents_collected in the
\* result.
C24_RunLimit ==
    /\ exp_processed <= exp_config.max_documents_per_run
    /\ exp_results.documents_collected <= exp_config.max_documents_per_run

----------------------------------------------------------------------------
(* Properties of GeminiResponder.generate_response (under ResponderSpec) *)

\* C26: with a non-empty context, an answer of the LLM that is returned is its
\* answer to the prompt that holds the formatted context documents, and when
\* some context document can be used the direct-answer prompt, which has no
\* context, is not sent.
C26_AnswerUsesContext ==
    (rpc = "done" /\ rsp_context # <<>>) =>
        /\ rsp_answer.kind = "llm" =>
               /\ rsp_answer.template = "RESPONDER_SYSTEM_PROMPT"
               /\ rsp_prompts[Len(rsp_prompts)].context = format_context(rsp_context)
        /\ format_context(rsp_context) # <<>> =>
               \A i \in 1..Len(rsp_prompts) :
                   rsp_prompts[i].template # "DIRECT_ANSWER_PROMPT"

----------------------------------------------------------------------------
(* Properties of ChatRouter and GeminiProvider (under ChatSpec) *)

\* C22: requests of different users do not affect each other through the
\* router's or the provider's fields: a request is answered by the attestation
\* provider only when the same user's request before it asked for an
\* attestation, and the messages kept in chat_history, which the chat session
\* answers from, are those of one user.
C22_RequestsIndependent ==
    /\ \A i \in 1..Len(chat_log) :
           chat_log[i].path = "get_token" =>
               /\ i > 1
               /\ chat_log[i - 1].path = "handle_attestation"
               /\ chat_log[i - 1].user = chat_log[i].user
    /\ \A i, j \in 1..Len(chat_history) :
           (chat_history[i].role = "user" /\ chat_history[j].role = "user") =>
               chat_history[i].content = chat_history[j].content

HistoryAlternates ==
    /\ Len(chat_history) % 2 = 0
    /\ \A i \in 1..Len(chat_history) :
           chat_history[i].role = IF i % 2 = 1 THEN "user" ELSE "assistant"

\* a step in which send_message was called
SendMessageStep ==
    /\ chat_log' # chat_log
    /\ chat_log'[Len(chat_log')].path = "handle_conversation"

\* C30: chat_history always has even length and alternates user and assistant
\* entries, starting with a user entry; every send_message appends one user
\* entry followed by one assistant entry, whatever its outcome; and while
\* initialization_error is set, send_message returns the recorded error
\* without a call to the provider and leaves the error set.
C30_HistoryAlternates ==
    /\ [] HistoryAlternates
    /\ [][SendMessageStep =>
            /\ Len(chat_history') = Len(chat_history) + 2
            /\ SubSeq(chat_history', 1, Len(chat_history)) = chat_history
            /\ chat_history'[Len(chat_history') - 1].role = "user"
            /\ chat_history'[Len(chat_history')].role = "assistant"
            /\ initialization_error # "None" =>
                   /\ chat_log'[Len(chat_log')].text = "recorded_error"
                   /\ chat_log'[Len(chat_log')].calls = 0
                   /\ initialization_error' = initialization_error]_vars

\* a message was answered with the recorded error after the initialisation
\* of the chat session had failed, and another one was answered after a reset
C30_Witness ==
    /\ Len(chat_log) >= 3
    /\ chat_log[1].text = "initialization_error"
    /\ chat_log[2].text = "recorded_error"
    /\ chat_log[3].text = "answer"
    /\ Len(chat_history) = 2

====
